---- MODULE Spec2Model ----
(***************************************************************************)
(* A model of mdbook-epub's Generator (src/src/generator.rs): the walk of  *)
(* the chapter tree, the rendering of each chapter through the             *)
(* EventQuoteConverter, and the sequence of calls made on the EpubBuilder. *)
(***************************************************************************)
EXTENDS Integers, Sequences, FiniteSets, TLC

VARIABLES
    book,      \* ctx.book: [sections, items]; items maps an item id to a BookItem
    meta,      \* ctx.config.book: [title, description, authors]
    config,    \* self.config
    assets,    \* what resources::find(ctx) discovers on disk
    pc,        \* the position of generate()
    stack,     \* the pending iterations of generate_chapters / add_chapter
    cur,       \* the chapter add_chapter is working on (0: none)
    converter, \* the EventQuoteConverter of the running render_chapter
    pending,   \* the parser events render_chapter still has to map
    body,      \* the events handed to html::push_html so far
    rendered,  \* the result of render_chapter for `cur`
    hbs,       \* the contexts handed to self.hbs.render, in order
    idx,       \* the loop index of additional_assets / additional_resources
    calls,     \* the calls made on self.builder, in order
    result     \* what generate() returned: running, Ok, Err or Panic

vars == <<book, meta, config, assets, pc, stack, cur, converter, pending, body,
          rendered, hbs, idx, calls, result>>

----------------------------------------------------------------------------
\* Bounds of the model.

MaxNodes == 3
MaxLen == 3
MaxEvents == 3
MaxRes == 2
MaxAssets == 1
MaxCss == 2
MaxDepth == 2

----------------------------------------------------------------------------
\* Option<T> as a sequence of length 0 (None) or 1 (Some).

None == <<>>
Some(v) == <<v>>
IsSome(o) == Len(o) = 1
Unwrap(o) == o[1]

Min(a, b) == IF a < b THEN a ELSE b

----------------------------------------------------------------------------
\* Characters and text. A text is a sequence of characters; a character is a
\* one-element token. The curly quotes are written as tokens.

SQ == "'"
DQ == "\""
LSQUO == "lsquo"
RSQUO == "rsquo"
LDQUO == "ldquo"
RDQUO == "rdquo"

\* char::is_whitespace
is_whitespace(c) == c \in {" ", "\n", "\t"}

\* A closure with a wrong literal: a closing single quote comes out as a
\* straight double quote.
converted_char_wrong_literal(original_char, preceded_by_whitespace) ==
    IF original_char = SQ
    THEN (IF preceded_by_whitespace THEN LSQUO ELSE DQ)
    ELSE IF original_char = DQ
    THEN (IF preceded_by_whitespace THEN LDQUO ELSE RDQUO)
    ELSE original_char

\* A closure that leaves an apostrophe inside a word as it is.
converted_char_keep_apostrophe(original_char, preceded_by_whitespace) ==
    IF original_char = SQ
    THEN (IF preceded_by_whitespace THEN LSQUO ELSE SQ)
    ELSE IF original_char = DQ
    THEN (IF preceded_by_whitespace THEN LDQUO ELSE RDQUO)
    ELSE original_char

\* The closure of convert_quotes_to_curly: one character, given the bit.
converted_char(original_char, preceded_by_whitespace) ==
    IF original_char = SQ
    THEN (IF preceded_by_whitespace THEN LSQUO ELSE RSQUO)
    ELSE IF original_char = DQ
    THEN (IF preceded_by_whitespace THEN LDQUO ELSE RDQUO)
    ELSE original_char

\* A scan that never updates the bit.
RECURSIVE curly_scan_stale_bit(_, _, _)
curly_scan_stale_bit(original_text, i, preceded_by_whitespace) ==
    IF i > Len(original_text) THEN <<>>
    ELSE <<converted_char(original_text[i], preceded_by_whitespace)>>
         \o curly_scan_stale_bit(original_text, i + 1, preceded_by_whitespace)

\* The scan of convert_quotes_to_curly from position i with the bit as it is
\* there; the bit after a character is whether that character is whitespace.
RECURSIVE curly_scan(_, _, _)
curly_scan(original_text, i, preceded_by_whitespace) ==
    IF i > Len(original_text) THEN <<>>
    ELSE <<converted_char(original_text[i], preceded_by_whitespace)>>
         \o curly_scan(original_text, i + 1, is_whitespace(original_text[i]))

\* A conversion that does not take the start for whitespace.
convert_quotes_to_curly_closed_start(original_text) ==
    curly_scan(original_text, 1, FALSE)

\* "We'll consider the start to be whitespace."
convert_quotes_to_curly(original_text) == curly_scan(original_text, 1, TRUE)

----------------------------------------------------------------------------
\* pulldown_cmark events, as far as the converter tells them apart.

StartTag(t) == [kind |-> "Start", tag |-> t, text |-> <<>>]
EndTag(t) == [kind |-> "End", tag |-> t, text |-> <<>>]
Text(t) == [kind |-> "Text", tag |-> "-", text |-> t]
Code(t) == [kind |-> "Code", tag |-> "-", text |-> t]

\* EventQuoteConverter::new
EventQuoteConverter_new(enabled) == [enabled |-> enabled, convert_text |-> TRUE]

\* A converter that rewrites text whatever convert_text says.
convert_in_code_too(self, event) ==
    IF ~self.enabled THEN [self |-> self, event |-> event]
    ELSE IF event.kind = "Start" /\ event.tag = "CodeBlock"
    THEN [self |-> [self EXCEPT !.convert_text = FALSE], event |-> event]
    ELSE IF event.kind = "End" /\ event.tag = "CodeBlock"
    THEN [self |-> [self EXCEPT !.convert_text = TRUE], event |-> event]
    ELSE IF event.kind = "Text"
    THEN [self |-> self,
          event |-> Text(convert_quotes_to_curly(event.text))]
    ELSE [self |-> self, event |-> event]

\* A converter without the early return for a disabled converter.
convert_without_early_return(self, event) ==
    IF event.kind = "Start" /\ event.tag = "CodeBlock"
    THEN [self |-> [self EXCEPT !.convert_text = FALSE], event |-> event]
    ELSE IF event.kind = "End" /\ event.tag = "CodeBlock"
    THEN [self |-> [self EXCEPT !.convert_text = TRUE], event |-> event]
    ELSE IF event.kind = "Text" /\ self.convert_text
    THEN [self |-> self,
          event |-> Text(convert_quotes_to_curly(event.text))]
    ELSE [self |-> self, event |-> event]

\* EventQuoteConverter::convert: the converter after the call, and the event
\* it returns.
convert(self, event) ==
    IF ~self.enabled THEN [self |-> self, event |-> event]
    ELSE IF event.kind = "Start" /\ event.tag = "CodeBlock"
    THEN [self |-> [self EXCEPT !.convert_text = FALSE], event |-> event]
    ELSE IF event.kind = "End" /\ event.tag = "CodeBlock"
    THEN [self |-> [self EXCEPT !.convert_text = TRUE], event |-> event]
    ELSE IF event.kind = "Text" /\ self.convert_text
    THEN [self |-> self,
          event |-> Text(convert_quotes_to_curly(event.text))]
    ELSE [self |-> self, event |-> event]

----------------------------------------------------------------------------
\* Paths. A path is its sequence of components (std::path::Components); a
\* component is [stem, ext], ext = "" when it has no extension. A string made
\* from a path is the sequence of its tokens, separators included.

Comp(stem, ext) == [stem |-> stem, ext |-> ext]

\* Path::parent: the path without its last component; none for the empty path.
parent(path) ==
    IF Len(path) = 0 THEN None ELSE Some(SubSeq(path, 1, Len(path) - 1))

\* Path::with_extension on the last component.
with_extension(path, ext) ==
    [path EXCEPT ![Len(path)] = Comp(path[Len(path)].stem, ext)]

\* One component as it is displayed.
comp_tokens(c) == IF c.ext = "" THEN <<c.stem>> ELSE <<c.stem, ".", c.ext>>

\* [T]::join(sep) over token sequences.
RECURSIVE join(_, _)
join(parts, sep) ==
    IF Len(parts) = 0 THEN <<>>
    ELSE IF Len(parts) = 1 THEN parts[1]
    ELSE parts[1] \o <<sep>> \o join(Tail(parts), sep)

\* Path::display().to_string()
display(path) == join([i \in 1..Len(path) |-> comp_tokens(path[i])], "/")

\* A reference that counts the components of the whole path, file included.
stylesheet_path_from_file(css_path) ==
    join([i \in 1..Len(css_path) |-> <<"..">>] \o << <<"stylesheet.css">> >>, "/")

\* render_chapter: one ".." per component of the chapter's directory, then
\* "stylesheet.css", joined by "/".
stylesheet_path(css_path) ==
    LET dir == Unwrap(parent(css_path))
    IN  join([i \in 1..Len(dir) |-> <<"..">>] \o << <<"stylesheet.css">> >>, "/")

----------------------------------------------------------------------------
\* add_chapter's pure parts.

\* mdbook's Display of a SectionNumber: every item followed by a dot.
RECURSIVE section_number_display(_)
section_number_display(n) ==
    IF Len(n) = 0 THEN ""
    ELSE ToString(n[1]) \o "." \o section_number_display(Tail(n))

section_number_string(n) ==
    IF Len(n) = 0 THEN "0" ELSE section_number_display(n)

\* A title that takes the numbering whatever no_section_label says.
chapter_title_always_numbered(no_section_label, ch) ==
    IF IsSome(ch.number)
    THEN section_number_string(Unwrap(ch.number)) \o " " \o ch.name
    ELSE ch.name

chapter_title(no_section_label, ch) ==
    IF no_section_label THEN ch.name
    ELSE IF IsSome(ch.number)
    THEN section_number_string(Unwrap(ch.number)) \o " " \o ch.name
    ELSE ch.name

\* ch.number.as_ref().map(|n| n.len() as i32 - 1).unwrap_or(0)
chapter_level(ch) ==
    IF IsSome(ch.number) THEN Len(Unwrap(ch.number)) - 1 ELSE 0

----------------------------------------------------------------------------
\* The inputs: the book, its metadata, the configuration and the files on
\* disk. They are chosen when the Generator is constructed and never change.

Names == <<"A", "B", "C", "D", "E", "F">>

BookItem(kind, name, number, path, content, sub_items) ==
    [kind |-> kind, name |-> name, number |-> number, path |-> path,
     content |-> content, sub_items |-> sub_items]

\* What a chapter can look like: its numbering, its path and its content.
Shape(kind, number, path, content) ==
    [kind |-> kind, number |-> number, path |-> path, content |-> content]

RootPath == <<Comp("a", "md")>>
Depth1Path == <<Comp("d", ""), Comp("b", "md")>>
Depth2Path == <<Comp("d", ""), Comp("e", ""), Comp("c", "md")>>

SeparatorShape == Shape("Separator", None, None, <<>>)
PlainShape == Shape("Chapter", None, Some(RootPath), <<>>)

Shapes ==
    { SeparatorShape,
      PlainShape,
      Shape("Chapter", Some(<<2, 1>>), Some(Depth2Path), <<Text(<<DQ>>)>>),
      Shape("Chapter", None, None, <<>>) }

\* The elements of a set of numbers in increasing order.
RECURSIVE Ascending(_)
Ascending(S) ==
    IF S = {} THEN <<>>
    ELSE LET m == CHOOSE x \in S : \A y \in S : x <= y
         IN  <<m>> \o Ascending(S \ {m})

\* The book with items 1..n, item i a child of par[i] (0: top level) and
\* shaped as shape[i]; children are in increasing order of their ids.
MkBook(n, par, shape) ==
    [sections |-> Ascending({i \in 1..n : par[i] = 0}),
     items |-> [i \in 1..n |->
        BookItem(shape[i].kind, Names[i], shape[i].number, shape[i].path,
                 shape[i].content, Ascending({j \in 1..n : par[j] = i}))]]

Books(n) ==
    { MkBook(n, par, shape) :
        <<par, shape>> \in
          { ps \in [1..n -> 0..n] \X [1..n -> Shapes] :
              \A i \in 1..n : /\ ps[1][i] < i
                              /\ ps[1][i] # 0 =>
                                   ps[2][ps[1][i]].kind = "Chapter" } }

AllBooks == UNION { Books(n) : n \in 0..MaxNodes }

\* The tree A[B, C[D]], every chapter renderable.
ExampleBook ==
    [sections |-> <<1>>,
     items |-> <<BookItem("Chapter", "A", Some(<<1>>), Some(RootPath), <<>>, <<2, 3>>),
                 BookItem("Chapter", "B", Some(<<1, 1>>), Some(Depth1Path), <<>>, <<>>),
                 BookItem("Chapter", "C", Some(<<1, 2>>), Some(Depth1Path), <<>>, <<4>>),
                 BookItem("Chapter", "D", Some(<<1, 2, 1>>), Some(Depth2Path), <<>>, <<>>)>>]

\* A book of one chapter with the given numbering and path.
ChapterBook(number, path) ==
    [sections |-> <<1>>,
     items |-> <<BookItem("Chapter", "Overview", number, path, <<>>, <<>>)>>]

\* Section numbers and chapter paths down to MaxDepth directories.
Numbers == {None} \cup { Some(n) : n \in UNION { [1..k -> {1, 2}] : k \in 0..MaxDepth } }
Dirs == UNION { [1..k -> {Comp("d", ""), Comp("e", "")}] : k \in 0..MaxDepth }
Paths == { dir \o <<file>> : dir \in Dirs, file \in {Comp("c", "md"), Comp("c", "")} }

\* A book of one chapter with the given content.
OneChapterBook(content) ==
    [sections |-> <<1>>,
     items |-> <<BookItem("Chapter", "A", Some(<<1>>), Some(Depth1Path), content, <<>>)>>]

\* All sequences over S of length at most n.
SeqsUpTo(S, n) == UNION { [1..k -> S] : k \in 0..n }

\* Texts.
Chars == {SQ, DQ, " ", "\n", "a", RSQUO}
ExampleText ==
    <<DQ, "h", "e", "l", "l", "o", " ", SQ, "w", "o", "r", "l", "d", SQ, DQ>>
Texts == SeqsUpTo(Chars, MaxLen) \cup {ExampleText}

\* What the markdown parser can emit: code blocks are not nested, and inside
\* a code block there are only text events.
\* Two top-level chapters, each with its own parsed content.
TwoChapterBook(first, second) ==
    [sections |-> <<1, 2>>,
     items |-> <<BookItem("Chapter", "A", Some(<<1>>), Some(Depth1Path), first, <<>>),
                 BookItem("Chapter", "B", Some(<<2>>), Some(Depth1Path), second, <<>>)>>]

EventPool ==
    { StartTag("CodeBlock"), EndTag("CodeBlock"), StartTag("Paragraph"),
      EndTag("Paragraph"), Text(<<DQ, "x", DQ>>), Text(<<"a", SQ>>),
      Code(<<SQ>>) }

RECURSIVE WellFormed(_, _)
WellFormed(events, in_code) ==
    IF Len(events) = 0 THEN TRUE
    ELSE LET e == events[1]
         IN  IF in_code
             THEN /\ e.kind = "Text" \/ e = EndTag("CodeBlock")
                  /\ WellFormed(Tail(events), e # EndTag("CodeBlock"))
             ELSE /\ e # EndTag("CodeBlock")
                  /\ WellFormed(Tail(events), e = StartTag("CodeBlock"))

ParserOutputs == { es \in SeqsUpTo(EventPool, MaxEvents) : WellFormed(es, FALSE) }

\* Files named by the configuration: whether the path has a file name,
\* whether it can be canonicalized, whether it can be opened.
File(name, canon_ok, open_ok) ==
    [name |-> name, canon_ok |-> canon_ok, open_ok |-> open_ok]
Files ==
    { File(Some("f.png"), TRUE, TRUE), File(None, TRUE, TRUE),
      File(Some("f.png"), FALSE, FALSE), File(Some("f.png"), TRUE, FALSE) }

\* CSS files: whether they open, whether they read, and their bytes.
CssFile(open_ok, read_ok, bytes) ==
    [open_ok |-> open_ok, read_ok |-> read_ok, bytes |-> bytes]
CssFiles ==
    { CssFile(TRUE, TRUE, <<"x">>), CssFile(TRUE, TRUE, <<"y">>),
      CssFile(FALSE, FALSE, <<>>), CssFile(TRUE, FALSE, <<"x">>) }
DEFAULT_CSS == <<"default">>

\* Discovered assets: the file name and whether the file opens.
Asset(filename, open_ok) == [filename |-> filename, open_ok |-> open_ok]
Assets == { Asset("img.png", TRUE), Asset("gone.png", FALSE) }

Config(labels_off, quotes, cover, default_css, css, resources) ==
    [no_section_label |-> labels_off, curly_quotes |-> quotes,
     cover_image |-> cover, use_default_css |-> default_css,
     additional_css |-> css, additional_resources |-> resources]

DefaultConfig == Config(FALSE, TRUE, None, TRUE, <<>>, <<>>)

Meta(title, description, authors) ==
    [title |-> title, description |-> description, authors |-> authors]

DefaultMeta == Meta(Some("Book"), None, <<>>)
Metas ==
    { Meta(t, d, a) : t \in {None, Some("Book")}, d \in {None, Some("About")},
                      a \in {<<>>, <<"Ann">>, <<"Ann", "Bob">>} }

----------------------------------------------------------------------------
\* The state after Generator::new.

Input(b, m, c, a) == [book |-> b, meta |-> m, config |-> c, assets |-> a]

EmptyBook == [sections |-> <<>>, items |-> <<>>]

\* Books of every shape.
TreeInputs ==
    { Input(b, DefaultMeta, DefaultConfig, <<>>) : b \in AllBooks \cup {ExampleBook} }

\* One chapter, every numbering and path, with and without section labels.
ChapterInputs ==
    { Input(ChapterBook(n, Some(p)), DefaultMeta,
            [DefaultConfig EXCEPT !.no_section_label = l], <<>>) :
        n \in Numbers, p \in Paths, l \in BOOLEAN }

\* One chapter, every content the parser can emit, quotes on and off.
ContentInputs ==
    { Input(OneChapterBook(es), DefaultMeta,
            [DefaultConfig EXCEPT !.curly_quotes = q], <<>>) :
        es \in ParserOutputs, q \in BOOLEAN }

\* One chapter of one text event, every text.
\* Contents of a later chapter: prose that starts with a text event, and
\* prose inside a paragraph.
LaterContents ==
    { <<Text(<<DQ, "x", DQ>>)>>, <<StartTag("Paragraph"), Text(<<"a", SQ>>)>> }

TwoChapterInputs ==
    { Input(TwoChapterBook(es, later), DefaultMeta,
            [DefaultConfig EXCEPT !.curly_quotes = q], <<>>) :
        es \in ParserOutputs, later \in LaterContents, q \in BOOLEAN }

TextInputs ==
    { Input(OneChapterBook(<<Text(t)>>), DefaultMeta, DefaultConfig, <<>>) :
        t \in Texts }

\* Every metadata, cover image, resource list, asset list and stylesheet list.
MetaInputs ==
    { Input(b, m, DefaultConfig, <<>>) : b \in {EmptyBook, ExampleBook}, m \in Metas }

FileInputs ==
    { Input(OneChapterBook(<<>>), DefaultMeta,
            [DefaultConfig EXCEPT !.cover_image = cv, !.additional_resources = rs],
            as) :
        cv \in {None} \cup {Some(f) : f \in Files},
        rs \in SeqsUpTo(Files, MaxRes),
        as \in SeqsUpTo(Assets, MaxAssets) }

CssInputs ==
    { Input(EmptyBook, DefaultMeta,
            [DefaultConfig EXCEPT !.use_default_css = d, !.additional_css = cs],
            <<>>) :
        d \in BOOLEAN, cs \in SeqsUpTo(CssFiles, MaxCss) }

Inputs ==
    TreeInputs \cup ChapterInputs \cup ContentInputs \cup TwoChapterInputs
        \cup TextInputs \cup MetaInputs \cup FileInputs \cup CssInputs

Running == [status |-> "running", error |-> "-"]

\* generate() with the cover image embedded before the chapters.
generate_steps_cover_first ==
    <<"populate_metadata", "add_cover_image", "generate_chapters",
      "embed_stylesheets", "additional_assets", "additional_resources",
      "builder.generate">>

\* The body of generate(): its steps, in the order it runs them.
generate_steps ==
    <<"populate_metadata", "generate_chapters", "add_cover_image",
      "embed_stylesheets", "additional_assets", "additional_resources",
      "builder.generate">>

\* Where generate() goes on when `step` has returned Ok.
after(step) ==
    LET i == CHOOSE k \in 1..Len(generate_steps) : generate_steps[k] = step
    IN  IF i = Len(generate_steps) THEN "done" ELSE generate_steps[i + 1]

Init ==
    /\ \E inp \in Inputs :
          /\ book = inp.book
          /\ meta = inp.meta
          /\ config = inp.config
          /\ assets = inp.assets
    /\ pc = generate_steps[1]
    /\ stack = <<>>
    /\ cur = 0
    /\ converter = EventQuoteConverter_new(FALSE)
    /\ pending = <<>>
    /\ body = <<>>
    /\ rendered = None
    /\ hbs = <<>>
    /\ idx = 0
    /\ calls = <<>>
    /\ result = Running

----------------------------------------------------------------------------
\* How generate() ends, and the calls on the builder.

\* An error that is dropped: the walk of the chapters goes on.
Fail_and_go_on(error) ==
    /\ result' = result
    /\ pc' = "generate_chapters"

\* `?` on an Err: generate returns it.
Fail(error) ==
    /\ result' = [status |-> "Err", error |-> error]
    /\ pc' = "done"

\* panic!, unwrap() on an Err, expect() on a None: the thread unwinds.
Panic(message) ==
    /\ result' = [status |-> "Panic", error |-> message]
    /\ pc' = "done"

\* One call on self.builder; ok is whether the builder returned Ok.
BuilderCall(op, phase, arg, ok) ==
    [op |-> op, phase |-> phase, arg |-> arg, ok |-> ok]

\* self.builder.<op>(..).sync()?: the call is made; on Err generate returns
\* it, on Ok it goes on at `next`.
CallThen(op, phase, arg, ok, next) ==
    /\ calls' = Append(calls, BuilderCall(op, phase, arg, ok))
    /\ IF ok
       THEN pc' = next /\ result' = result
       ELSE Fail("archive")

----------------------------------------------------------------------------
\* populate_metadata

MetaCall(key, value) == [key |-> key, value |-> value]

\* Metadata that always has a title entry, empty when the book has none.
metadata_calls_default_title(m) ==
    <<MetaCall("generator", <<"mdbook-epub">>)>>
    \o <<MetaCall("title", IF IsSome(m.title) THEN <<Unwrap(m.title)>> ELSE <<>>)>>
    \o (IF IsSome(m.description)
        THEN <<MetaCall("description", <<Unwrap(m.description)>>)>> ELSE <<>>)
    \o (IF Len(m.authors) # 0
        THEN <<MetaCall("author",
                        join([i \in 1..Len(m.authors) |-> <<m.authors[i]>>], ", "))>>
        ELSE <<>>)
    \o <<MetaCall("generator", <<"mdbook-epub">>), MetaCall("lang", <<"en">>)>>

\* The metadata calls populate_metadata makes when none of them fails.
metadata_calls(m) ==
    <<MetaCall("generator", <<"mdbook-epub">>)>>
    \o (IF IsSome(m.title) THEN <<MetaCall("title", <<Unwrap(m.title)>>)>> ELSE <<>>)
    \o (IF IsSome(m.description)
        THEN <<MetaCall("description", <<Unwrap(m.description)>>)>> ELSE <<>>)
    \o (IF Len(m.authors) # 0
        THEN <<MetaCall("author",
                        join([i \in 1..Len(m.authors) |-> <<m.authors[i]>>], ", "))>>
        ELSE <<>>)
    \o <<MetaCall("generator", <<"mdbook-epub">>), MetaCall("lang", <<"en">>)>>

\* self.populate_metadata()?: the calls are made in order up to the first
\* one the builder rejects (k), or all of them (k past the last).
PopulateMetadata ==
    /\ pc = "populate_metadata"
    /\ LET mc == metadata_calls(meta)
       IN  \E k \in 1..(Len(mc) + 1) :
              /\ calls' = calls \o
                    [j \in 1..Min(k, Len(mc)) |->
                        BuilderCall("metadata", "populate_metadata", mc[j], j < k)]
              /\ IF k > Len(mc)
                 THEN /\ pc' = after("populate_metadata")
                      /\ result' = result
                      /\ stack' = <<book.sections>>
                 ELSE Fail("archive") /\ stack' = stack
    /\ UNCHANGED <<book, meta, config, assets, cur, converter, pending, body,
                   rendered, hbs, idx>>

----------------------------------------------------------------------------
\* generate_chapters and add_chapter. The stack holds, innermost first, the
\* items each running `for` loop has still to visit.

\* A `for` loop is exhausted: add_chapter (or generate_chapters) returns Ok.
LoopDone ==
    /\ pc = "generate_chapters"
    /\ IF Len(stack) = 0
       THEN pc' = after("generate_chapters") /\ stack' = stack
       ELSE /\ Len(Head(stack)) = 0
            /\ stack' = Tail(stack)
            /\ pc' = pc
    /\ UNCHANGED <<book, meta, config, assets, cur, converter, pending, body,
                   rendered, hbs, idx, calls, result>>

\* The next item is not a chapter: the `if let` skips it.
SkipItem ==
    /\ pc = "generate_chapters"
    /\ Len(stack) > 0 /\ Len(Head(stack)) > 0
    /\ book.items[Head(Head(stack))].kind # "Chapter"
    /\ stack' = <<Tail(Head(stack))>> \o Tail(stack)
    /\ UNCHANGED <<book, meta, config, assets, pc, cur, converter, pending, body,
                   rendered, hbs, idx, calls, result>>

\* The next item is a chapter: add_chapter is entered and render_chapter
\* builds the parser and a converter of its own.
\* A render pass that goes on with the converter of the chapter before.
render_converter_shared(previous, enabled) == [previous EXCEPT !.enabled = enabled]

\* render_chapter builds its converter anew, whatever converter the chapter
\* before it was rendered with.
render_converter(previous, enabled) == EventQuoteConverter_new(enabled)

BeginRender ==
    /\ pc = "generate_chapters"
    /\ Len(stack) > 0 /\ Len(Head(stack)) > 0
    /\ LET id == Head(Head(stack))
       IN  /\ book.items[id].kind = "Chapter"
           /\ cur' = id
           /\ converter' = render_converter(converter, config.curly_quotes)
           /\ pending' = book.items[id].content
    /\ body' = <<>>
    /\ rendered' = None
    /\ stack' = <<Tail(Head(stack))>> \o Tail(stack)
    /\ pc' = "render"
    /\ UNCHANGED <<book, meta, config, assets, hbs, idx, calls, result>>

\* html::push_html pulls one event through the converter.
ConvertEvent ==
    /\ pc = "render"
    /\ Len(pending) > 0
    /\ LET r == convert(converter, Head(pending))
       IN  /\ converter' = r.self
           /\ body' = Append(body, r.event)
    /\ pending' = Tail(pending)
    /\ UNCHANGED <<book, meta, config, assets, pc, stack, cur, rendered, hbs,
                   idx, calls, result>>

\* A check that expects the path to be there.
css_path_check_expect(ch) ==
    IF ~IsSome(ch.path) THEN "no parent"
    ELSE IF ~IsSome(parent(Unwrap(ch.path))) THEN "no parent"
    ELSE "ok"

\* render_chapter's look at ch.path: a missing path is an error, a path
\* without a parent a panic.
css_path_check(ch) ==
    IF ~IsSome(ch.path) THEN "missing"
    ELSE IF ~IsSome(parent(Unwrap(ch.path))) THEN "no parent"
    ELSE "ok"

\* A walk that finishes the caller's loop before the sub-items' loop.
enter_sub_items_last(stk, sub_items) == stk \o <<sub_items>>

\* add_chapter: the sub-items' loop runs before the caller's loop goes on.
\* A traversal that walks the children of a chapter twice.
enter_sub_items_twice(stk, sub_items) == <<sub_items, sub_items>> \o stk

enter_sub_items(stk, sub_items) == <<sub_items>> \o stk

\* The context render_chapter hands to the template.
template_context(ch, html) ==
    [title |-> ch.name, body |-> html, stylesheet |-> stylesheet_path(Unwrap(ch.path))]

\* The rest of render_chapter: the path, the stylesheet reference and the
\* template, which may reject the context.
FinishRender ==
    /\ pc = "render"
    /\ Len(pending) = 0
    /\ LET ch == book.items[cur]
       IN  IF css_path_check(ch) = "missing"
           THEN Fail("render: no path") /\ UNCHANGED <<hbs, rendered>>
           ELSE IF css_path_check(ch) = "no parent"
           THEN Panic("All chapters have a parent") /\ UNCHANGED <<hbs, rendered>>
           ELSE /\ hbs' = Append(hbs, [ch |-> cur, ctx |-> template_context(ch, body)])
                /\ \E ok \in BOOLEAN :
                      IF ok
                      THEN /\ rendered' = Some(template_context(ch, body))
                           /\ pc' = "register"
                           /\ result' = result
                      ELSE Fail("template") /\ rendered' = rendered
    /\ UNCHANGED <<book, meta, config, assets, stack, cur, converter, pending,
                   body, idx, calls>>

\* The EpubContent add_chapter builds.
epub_content(ch, id, html) ==
    [ch |-> id,
     path |-> display(with_extension(Unwrap(ch.path), "html")),
     content |-> html,
     title |-> chapter_title(config.no_section_label, ch),
     level |-> chapter_level(ch)]

\* The rest of add_chapter's body: the content is registered, then the loop
\* over the sub-items starts.
RegisterChapter ==
    /\ pc = "register"
    /\ LET ch == book.items[cur]
       IN  IF ~IsSome(ch.path)
           THEN Fail("content: no path") /\ UNCHANGED <<calls, stack>>
           ELSE \E ok \in BOOLEAN :
                   /\ CallThen("add_content", "generate_chapters",
                               epub_content(ch, cur, Unwrap(rendered)), ok,
                               "generate_chapters")
                   /\ stack' = IF ok THEN enter_sub_items(stack, ch.sub_items) ELSE stack
    /\ UNCHANGED <<book, meta, config, assets, cur, converter, pending, body,
                   rendered, hbs, idx>>

----------------------------------------------------------------------------
\* add_cover_image

AddCoverImage ==
    /\ pc = "add_cover_image"
    /\ IF ~IsSome(config.cover_image)
       THEN pc' = after("add_cover_image") /\ UNCHANGED <<calls, result>>
       ELSE LET path == Unwrap(config.cover_image)
            IN  IF ~IsSome(path.name)
                THEN Panic("Can't provide file name.") /\ calls' = calls
                ELSE IF ~path.canon_ok
                THEN Fail("canonicalize") /\ calls' = calls
                ELSE IF ~path.open_ok
                THEN Fail("Unable to open asset") /\ calls' = calls
                ELSE \E ok \in BOOLEAN :
                        CallThen("add_cover_image", "add_cover_image",
                                 Unwrap(path.name), ok, after("add_cover_image"))
    /\ UNCHANGED <<book, meta, config, assets, stack, cur, converter, pending,
                   body, rendered, hbs, idx>>

----------------------------------------------------------------------------
\* embed_stylesheets and generate_stylesheet

\* The loop of generate_stylesheet from css file i on: the bytes read so
\* far, or the error that stopped it.
RECURSIVE read_stylesheets(_, _, _)
read_stylesheets(css, i, stylesheet) ==
    IF i > Len(css) THEN [ok |-> TRUE, bytes |-> stylesheet]
    ELSE IF ~css[i].open_ok THEN [ok |-> FALSE, bytes |-> <<>>]
    ELSE IF ~css[i].read_ok THEN [ok |-> FALSE, bytes |-> <<>>]
    ELSE read_stylesheets(css, i + 1, stylesheet \o css[i].bytes)

\* A stylesheet with the default CSS after the additional files.
generate_stylesheet_default_last(cfg) ==
    LET read == read_stylesheets(cfg.additional_css, 1, <<>>)
    IN  IF read.ok /\ cfg.use_default_css
        THEN [ok |-> TRUE, bytes |-> read.bytes \o DEFAULT_CSS]
        ELSE read

generate_stylesheet(cfg) ==
    read_stylesheets(cfg.additional_css, 1,
                     IF cfg.use_default_css THEN DEFAULT_CSS ELSE <<>>)

EmbedStylesheets ==
    /\ pc = "embed_stylesheets"
    /\ LET stylesheet == generate_stylesheet(config)
       IN  IF ~stylesheet.ok
           THEN Fail("Unable to generate stylesheet") /\ calls' = calls
           ELSE \E ok \in BOOLEAN :
                   CallThen("stylesheet", "embed_stylesheets", stylesheet.bytes, ok,
                            after("embed_stylesheets"))
    /\ idx' = idx
    /\ UNCHANGED <<book, meta, config, assets, stack, cur, converter, pending,
                   body, rendered, hbs>>

----------------------------------------------------------------------------
\* additional_assets and load_asset

\* resources::find(self.ctx): it finds the assets or fails.
FindAssets ==
    /\ pc = "additional_assets"
    /\ \E found \in BOOLEAN :
          IF found
          THEN pc' = "load_asset" /\ idx' = 1 /\ result' = result
          ELSE Fail("Inspecting the book for additional assets failed") /\ idx' = idx
    /\ UNCHANGED <<book, meta, config, assets, stack, cur, converter, pending,
                   body, rendered, hbs, calls>>

\* One iteration of the loop: load_asset opens the file and registers it.
LoadAsset ==
    /\ pc = "load_asset"
    /\ idx <= Len(assets)
    /\ IF ~assets[idx].open_ok
       THEN Fail("Couldn't load asset") /\ calls' = calls /\ idx' = idx
       ELSE \E ok \in BOOLEAN :
               /\ CallThen("add_resource", "additional_assets", assets[idx].filename,
                           ok, "load_asset")
               /\ idx' = idx + 1
    /\ UNCHANGED <<book, meta, config, assets, stack, cur, converter, pending,
                   body, rendered, hbs>>

AssetsDone ==
    /\ pc = "load_asset"
    /\ idx > Len(assets)
    /\ pc' = after("additional_assets")
    /\ idx' = 1
    /\ UNCHANGED <<book, meta, config, assets, stack, cur, converter, pending,
                   body, rendered, hbs, calls, result>>

----------------------------------------------------------------------------
\* additional_resources

\* One iteration of the loop over config.additional_resources.
AddResource ==
    /\ pc = "additional_resources"
    /\ idx <= Len(config.additional_resources)
    /\ LET path == config.additional_resources[idx]
       IN  IF ~IsSome(path.name)
           THEN Panic("Can't determine file name") /\ calls' = calls /\ idx' = idx
           ELSE IF ~path.canon_ok
           THEN Fail("canonicalize") /\ calls' = calls /\ idx' = idx
           ELSE IF ~path.open_ok
           THEN Panic("Unable to open asset") /\ calls' = calls /\ idx' = idx
           ELSE \E ok \in BOOLEAN :
                   /\ CallThen("add_resource", "additional_resources",
                               Unwrap(path.name), ok, "additional_resources")
                   /\ idx' = idx + 1
    /\ UNCHANGED <<book, meta, config, assets, stack, cur, converter, pending,
                   body, rendered, hbs>>

ResourcesDone ==
    /\ pc = "additional_resources"
    /\ idx > Len(config.additional_resources)
    /\ pc' = after("additional_resources")
    /\ UNCHANGED <<book, meta, config, assets, stack, cur, converter, pending,
                   body, rendered, hbs, idx, calls, result>>

----------------------------------------------------------------------------
\* self.builder.generate(writer).sync()?; Ok(())

Finalize ==
    /\ pc = "builder.generate"
    /\ \E ok \in BOOLEAN :
          /\ calls' = Append(calls, BuilderCall("generate", "builder.generate", <<>>, ok))
          /\ pc' = "done"
          /\ result' = IF ok THEN [status |-> "Ok", error |-> "-"]
                       ELSE [status |-> "Err", error |-> "archive"]
    /\ UNCHANGED <<book, meta, config, assets, stack, cur, converter, pending,
                   body, rendered, hbs, idx>>

----------------------------------------------------------------------------
Next ==
    \/ PopulateMetadata
    \/ LoopDone
    \/ SkipItem
    \/ BeginRender
    \/ ConvertEvent
    \/ FinishRender
    \/ RegisterChapter
    \/ AddCoverImage
    \/ EmbedStylesheets
    \/ FindAssets
    \/ LoadAsset
    \/ AssetsDone
    \/ AddResource
    \/ ResourcesDone
    \/ Finalize

Spec == Init /\ [][Next]_vars

----------------------------------------------------------------------------
\* What the claims speak about.

\* The chapters in depth-first pre-order: a chapter, then its sub-items'
\* chapters, then the items after it; items that are no chapter are left out.
RECURSIVE PreOrder(_, _)
PreOrder(b, ids) ==
    IF Len(ids) = 0 THEN <<>>
    ELSE LET item == b.items[Head(ids)]
         IN  (IF item.kind = "Chapter"
              THEN <<Head(ids)>> \o PreOrder(b, item.sub_items)
              ELSE <<>>)
             \o PreOrder(b, Tail(ids))

IsContent(c) == c.op = "add_content"
ContentCalls == SelectSeq(calls, IsContent)

\* The chapters add_content was called for, in call order.
Registered == [i \in 1..Len(ContentCalls) |-> ContentCalls[i].arg.ch]

IsPrefix(s, t) == Len(s) <= Len(t) /\ s = SubSeq(t, 1, Len(s))

\* generate_chapters has returned Ok.
ChaptersDone ==
    \/ pc \in {"add_cover_image", "embed_stylesheets", "additional_assets",
               "load_asset", "additional_resources", "builder.generate"}
    \/ result.status = "Ok"

\* C1: the add_content calls are made in the depth-first pre-order of the
\* chapter tree: at every moment the chapters registered so far are an initial
\* part of the pre-order listing, and once generate_chapters has returned Ok
\* they are the whole listing.
C1_PreOrderRegistration ==
    /\ IsPrefix(Registered, PreOrder(book, book.sections))
    /\ ChaptersDone => Registered = PreOrder(book, book.sections)

\* C1's case: the tree A[B, C[D]] registered as A, B, C, D.
C1_Witness ==
    /\ book = ExampleBook
    /\ ChaptersDone
    /\ [i \in 1..Len(Registered) |-> book.items[Registered[i]].name]
          = <<"A", "B", "C", "D">>

\* The place of a builder call in the order of generate().
PhaseRank(phase) ==
    CHOOSE k \in 1..7 :
        <<"populate_metadata", "generate_chapters", "add_cover_image",
          "embed_stylesheets", "additional_assets", "additional_resources",
          "builder.generate">>[k] = phase

OpsOfPhase(phase) ==
    CASE phase = "populate_metadata" -> {"metadata"}
      [] phase = "generate_chapters" -> {"add_content"}
      [] phase = "add_cover_image" -> {"add_cover_image"}
      [] phase = "embed_stylesheets" -> {"stylesheet"}
      [] phase = "additional_assets" -> {"add_resource"}
      [] phase = "additional_resources" -> {"add_resource"}
      [] phase = "builder.generate" -> {"generate"}

CountOp(op) == Cardinality({i \in 1..Len(calls) : calls[i].op = op})

\* C2: the builder calls come in the order metadata, chapter contents, cover
\* image, stylesheet, discovered assets, additional resources, finalize; the
\* cover image and the stylesheet are registered at most once; finalize is
\* called at most once and no call follows it.
C2_PhaseOrder ==
    /\ \A i \in 1..Len(calls) : calls[i].op \in OpsOfPhase(calls[i].phase)
    /\ \A i, j \in 1..Len(calls) :
          i < j => PhaseRank(calls[i].phase) <= PhaseRank(calls[j].phase)
    /\ CountOp("add_cover_image") <= 1
    /\ CountOp("stylesheet") <= 1
    /\ CountOp("generate") <= 1
    /\ \A i \in 1..Len(calls) : calls[i].op = "generate" => i = Len(calls)
    /\ result.status = "Ok" =>
          /\ Len(calls) > 0
          /\ calls[Len(calls)].op = "generate"
          /\ CountOp("stylesheet") = 1

\* C2's case: a run that made calls of every phase and was finalized.
C2_Witness ==
    /\ result.status = "Ok"
    /\ \A k \in 1..7 : \E i \in 1..Len(calls) : PhaseRank(calls[i].phase) = k

----------------------------------------------------------------------------
\* The events of the chapter being rendered, as the parser emitted them.
Content == IF cur = 0 THEN <<>> ELSE book.items[cur].content

\* Event i lies after an enter-code-block event that no exit-code-block
\* event has closed before i.
InCodeBlock(events, i) ==
    \E j \in 1..(i - 1) :
        /\ events[j] = StartTag("CodeBlock")
        /\ \A k \in (j + 1)..(i - 1) : events[k] # EndTag("CodeBlock")

\* C3: with curly_quotes on, a text event inside a code block is handed on
\* unchanged, and so are the enter- and exit-code-block events.
C3_CodeBlockVerbatim ==
    config.curly_quotes =>
        \A i \in 1..Len(body) :
            \/ Content[i].kind = "Text" /\ InCodeBlock(Content, i)
            \/ Content[i] \in {StartTag("CodeBlock"), EndTag("CodeBlock")}
            => body[i] = Content[i]

\* C3's case: a quoted text inside a code block came out unchanged while a
\* text outside of it was rewritten.
C3_Witness ==
    /\ config.curly_quotes
    /\ \E i, j \in 1..Len(body) :
          /\ InCodeBlock(Content, i)
          /\ Content[i] = Text(<<DQ, "x", DQ>>)
          /\ body[i] = Content[i]
          /\ body[j] # Content[j]

\* C8: with curly_quotes off, every event is handed on unchanged, code block
\* or not, the converter's state is never modified, and the body given to
\* the template is the parser's events.
C8_DisabledIsNoOp ==
    ~config.curly_quotes =>
        /\ body = SubSeq(Content, 1, Len(body))
        /\ converter = EventQuoteConverter_new(FALSE)
        /\ \A i \in 1..Len(hbs) : hbs[i].ctx.body = book.items[hbs[i].ch].content

\* C8's case: a disabled converter has passed a code block and quoted text.
C8_Witness ==
    /\ ~config.curly_quotes
    /\ pc = "register"
    /\ Len(body) = Len(Content)
    /\ \E i, j \in 1..Len(body) :
          /\ body[i] = StartTag("CodeBlock")
          /\ i < j
          /\ body[j] = Text(<<DQ, "x", DQ>>)

\* The rule of the quote conversion, position by position: a quote opens
\* when it is the first character or follows a whitespace character, and
\* closes otherwise; any other character stays.
ExpectedCurly(t) ==
    [i \in 1..Len(t) |->
        LET opening == i = 1 \/ t[i - 1] \in {" ", "\n", "\t"}
        IN  IF t[i] = "'" THEN (IF opening THEN "lsquo" ELSE "rsquo")
            ELSE IF t[i] = "\"" THEN (IF opening THEN "ldquo" ELSE "rdquo")
            ELSE t[i]]

ExampleCurly ==
    <<"ldquo", "h", "e", "l", "l", "o", " ", "lsquo", "w", "o", "r", "l", "d",
      "rsquo", "rdquo">>

\* C9: every text event that is rewritten comes out as the left-to-right
\* rule says: quotes open at the start and after whitespace and close
\* elsewhere, other characters are unchanged; "hello 'world'" in double
\* quotes comes out with the four directed quotes.
C9_QuoteDirection ==
    config.curly_quotes =>
        /\ \A i \in 1..Len(body) :
              Content[i].kind = "Text" /\ ~InCodeBlock(Content, i)
              => body[i] = Text(ExpectedCurly(Content[i].text))
        /\ Content = <<Text(ExampleText)>> /\ Len(body) = 1
              => body[1] = Text(ExampleCurly)

\* C9's case: the example text has been converted.
C9_Witness ==
    /\ Content = <<Text(ExampleText)>>
    /\ body = <<Text(ExampleCurly)>>

----------------------------------------------------------------------------
\* The chapter add_chapter is working on has no source path.
NoPathReached == cur # 0 /\ ~IsSome(book.items[cur].path)

\* C4: once the walk has reached a chapter without a source path and
\* rendered its events, generate has returned the missing-path error; the
\* builder's generate is never called in such a run, and a run that returned
\* Ok met no chapter without a path.
C4_MissingPathFails ==
    /\ NoPathReached /\ pc # "render" =>
          /\ pc = "done"
          /\ result = [status |-> "Err", error |-> "render: no path"]
    /\ NoPathReached => CountOp("generate") = 0
    /\ result.status = "Ok" =>
          \A i \in 1..Len(PreOrder(book, book.sections)) :
              IsSome(book.items[PreOrder(book, book.sections)[i]].path)

\* C4's case: after some chapter was registered, a chapter without a path
\* was reached and generate has ended.
C4_Witness ==
    /\ NoPathReached
    /\ pc = "done"
    /\ Len(Registered) >= 1

\* render_chapter failed for `cur`: add_chapter has left it, and
\* add_content was never called for it.
RenderFailed ==
    /\ cur # 0
    /\ pc \notin {"render", "register"}
    /\ \A i \in 1..Len(Registered) : Registered[i] # cur

RenderAttempts == [i \in 1..Len(hbs) |-> hbs[i].ch]

\* C5: when render_chapter fails, generate has ended with that error; the
\* failing chapter is not registered, the registered chapters are exactly
\* those before it in pre-order, no chapter after it was rendered, and no
\* call of a later phase was made.
C5_RenderFailureAborts ==
    /\ RenderFailed =>
          /\ pc = "done"
          /\ result.status = "Err"
          /\ result.error \in {"render: no path", "template"}
          /\ IsPrefix(Registered \o <<cur>>, PreOrder(book, book.sections))
          /\ RenderAttempts \in {Registered, Registered \o <<cur>>}
          /\ \A i \in 1..Len(calls) :
                calls[i].phase \in {"populate_metadata", "generate_chapters"}
    /\ result.error \in {"render: no path", "template"} => RenderFailed

\* C5's case: the template failed for a chapter after another chapter was
\* registered and with chapters still to come.
C5_Witness ==
    /\ RenderFailed
    /\ result.error = "template"
    /\ Len(Registered) >= 1
    /\ Len(PreOrder(book, book.sections)) > Len(Registered) + 1

\* C6: however generate ends, it ends by returning: Ok, or an error value.
C6_ErrorsAreReturned ==
    pc = "done" => result.status \in {"Ok", "Err"}

\* C7: the level of every registered chapter is the length of its numbering
\* minus one, 0 without numbering, and is never negative.
C7_LevelNonNegative ==
    \A i \in 1..Len(ContentCalls) :
        LET ch == book.items[ContentCalls[i].arg.ch]
            level == ContentCalls[i].arg.level
        IN  /\ level = IF IsSome(ch.number) THEN Len(Unwrap(ch.number)) - 1 ELSE 0
            /\ level >= 0

\* The reference from depth directories down: "../" depth times, then the
\* stylesheet's name.
ExpectedReference(depth) ==
    [i \in 1..(2 * depth) |-> IF i % 2 = 1 THEN ".." ELSE "/"]
        \o <<"stylesheet.css">>

\* Where a relative reference leads from directory `dir` of the book.
RECURSIVE Resolve(_, _)
Resolve(dir, tokens) ==
    IF Len(tokens) = 0 THEN dir
    ELSE IF Head(tokens) = "/" THEN Resolve(dir, Tail(tokens))
    ELSE IF Head(tokens) = ".."
    THEN (IF Len(dir) = 0 THEN <<"outside the book">>
          ELSE Resolve(SubSeq(dir, 1, Len(dir) - 1), Tail(tokens)))
    ELSE Resolve(Append(dir, Head(tokens)), Tail(tokens))

\* C10: the stylesheet reference in every template context is one ".." per
\* directory of the chapter's path, joined by "/", then "stylesheet.css";
\* from the chapter's directory it leads to the stylesheet in the book's
\* root; a/b/c.md gets ../../stylesheet.css and a chapter in the root gets
\* stylesheet.css.
C10_StylesheetReference ==
    \A i \in 1..Len(hbs) :
        LET path == Unwrap(book.items[hbs[i].ch].path)
            dir == [k \in 1..(Len(path) - 1) |-> path[k].stem]
            ref == hbs[i].ctx.stylesheet
        IN  /\ ref = ExpectedReference(Len(path) - 1)
            /\ Resolve(dir, ref) = <<"stylesheet.css">>
            /\ Len(path) = 3 => ref = <<"..", "/", "..", "/", "stylesheet.css">>
            /\ Len(path) = 1 => ref = <<"stylesheet.css">>

\* C10's case: a chapter two directories down got ../../stylesheet.css.
C10_Witness ==
    \E i \in 1..Len(hbs) :
        /\ Len(Unwrap(book.items[hbs[i].ch].path)) = 3
        /\ hbs[i].ctx.stylesheet = <<"..", "/", "..", "/", "stylesheet.css">>

----------------------------------------------------------------------------
\* A numbering written with a dot between its items ("2.1").
RECURSIVE DotsBetween(_)
DotsBetween(n) ==
    IF Len(n) = 0 THEN ""
    ELSE IF Len(n) = 1 THEN ToString(n[1])
    ELSE DotsBetween(SubSeq(n, 1, Len(n) - 1)) \o "." \o ToString(n[Len(n)])

\* A numbering written with a dot after each of its items ("2.1."); the
\* empty numbering is written "0".
DotAfterEach(n) == IF Len(n) = 0 THEN "0" ELSE DotsBetween(n) \o "."

\* C11 as claimed: the title is the bare name when labels are off or the
\* chapter is unnumbered, and otherwise the numbering with dots between its
\* items, one space and the name ("2.1 Overview").
C11_TitleAsClaimed ==
    \A i \in 1..Len(ContentCalls) :
        LET ch == book.items[ContentCalls[i].arg.ch]
        IN  ContentCalls[i].arg.title =
                IF config.no_section_label \/ ~IsSome(ch.number) THEN ch.name
                ELSE DotsBetween(Unwrap(ch.number)) \o " " \o ch.name

\* C11, amended: the title is the bare name when labels are off or the
\* chapter is unnumbered, and otherwise the numbering with a dot after each
\* item ("0" for an empty numbering), one space and the name: [2,1] and
\* "Overview" give "2.1. Overview" with labels on and "Overview" with
\* labels off.
C11_Title ==
    \A i \in 1..Len(ContentCalls) :
        LET ch == book.items[ContentCalls[i].arg.ch]
            title == ContentCalls[i].arg.title
        IN  /\ title =
                IF config.no_section_label \/ ~IsSome(ch.number) THEN ch.name
                ELSE DotAfterEach(Unwrap(ch.number)) \o " " \o ch.name
            /\ ch.number = Some(<<2, 1>>) /\ ch.name = "Overview" =>
                  title = IF config.no_section_label THEN "Overview"
                          ELSE "2.1. Overview"

\* C11's case: the chapter numbered [2,1] and named Overview was registered
\* with labels on.
C11_Witness ==
    /\ ~config.no_section_label
    /\ \E i \in 1..Len(ContentCalls) :
          /\ book.items[ContentCalls[i].arg.ch].number = Some(<<2, 1>>)
          /\ ContentCalls[i].arg.title = "2.1. Overview"

----------------------------------------------------------------------------
\* The bytes of the css files, one file after the other.
RECURSIVE AllBytes(_)
AllBytes(css) ==
    IF Len(css) = 0 THEN <<>>
    ELSE AllBytes(SubSeq(css, 1, Len(css) - 1)) \o css[Len(css)].bytes

\* Some additional CSS file cannot be opened or read.
BadCss ==
    \E i \in 1..Len(config.additional_css) :
        ~config.additional_css[i].open_ok \/ ~config.additional_css[i].read_ok

IsStylesheet(c) == c.op = "stylesheet"
StylesheetCalls == SelectSeq(calls, IsStylesheet)

\* C12: the stylesheet handed to the builder is the default CSS (when
\* use_default_css is set, and then first) followed by the bytes of every
\* additional CSS file in configuration order; a run that returned Ok
\* registered exactly one stylesheet; when an additional CSS file cannot be
\* opened or read, no stylesheet is registered, generate does not get past
\* embed_stylesheets and does not return Ok.
C12_StylesheetAssembly ==
    /\ \A i \in 1..Len(StylesheetCalls) :
          StylesheetCalls[i].arg =
              (IF config.use_default_css THEN <<"default">> ELSE <<>>)
                  \o AllBytes(config.additional_css)
    /\ result.status = "Ok" => Len(StylesheetCalls) = 1
    /\ BadCss =>
          /\ Len(StylesheetCalls) = 0
          /\ result.status # "Ok"
          /\ pc \notin {"additional_assets", "load_asset", "additional_resources",
                        "builder.generate"}
          /\ pc = "done" /\ Len(calls) > 0 /\ calls[Len(calls)].ok =>
                result = [status |-> "Err",
                          error |-> "Unable to generate stylesheet"]

\* C12's case: default CSS and two additional files, registered in order,
\* in a run that returned Ok.
C12_Witness ==
    /\ result.status = "Ok"
    /\ config.use_default_css
    /\ Len(config.additional_css) = 2
    /\ StylesheetCalls[1].arg = <<"default", "x", "y">>

\* C12's failure case is reached as well: a CSS file that does not open.
C12_FailureReached ==
    BadCss /\ pc = "done" /\ result.error = "Unable to generate stylesheet"

----------------------------------------------------------------------------
IsMetadata(c) == c.op = "metadata"
MetadataCalls == SelectSeq(calls, IsMetadata)
MetadataKeys == [i \in 1..Len(MetadataCalls) |-> MetadataCalls[i].arg.key]

\* The keys populate_metadata sets for a book, in order.
ExpectedKeys ==
    <<"generator">>
    \o (IF meta.title = <<>> THEN <<>> ELSE <<"title">>)
    \o (IF meta.description = <<>> THEN <<>> ELSE <<"description">>)
    \o (IF meta.authors = <<>> THEN <<>> ELSE <<"author">>)
    \o <<"generator", "lang">>

AllCallsOk == \A i \in 1..Len(calls) : calls[i].ok

\* C13: a book without a title gets no title metadata; the other metadata
\* are set as for any book (description if present, authors if there are
\* any, the two generator tags and the language); populate_metadata then
\* returns Ok and generate goes on: it ends with an archive error only when
\* the builder rejected a call.
C13_MissingTitleIsNoError ==
    /\ meta.title = <<>> =>
          \A i \in 1..Len(MetadataCalls) : MetadataCalls[i].arg.key # "title"
    /\ IsPrefix(MetadataKeys, ExpectedKeys)
    /\ pc # "populate_metadata" /\ (\A i \in 1..Len(MetadataCalls) : MetadataCalls[i].ok)
          => MetadataKeys = ExpectedKeys
    /\ pc = "done" /\ AllCallsOk /\ Len(calls) = Len(MetadataCalls)
          => result.error # "archive"
    /\ result.error = "archive" => ~AllCallsOk

\* C13's case: a book without a title, with a description and authors, was
\* generated to the end.
C13_Witness ==
    /\ meta.title = <<>>
    /\ result.status = "Ok"
    /\ MetadataKeys = <<"generator", "description", "author", "generator", "lang">>
    /\ Len(ContentCalls) = 4
    /\ calls[Len(calls)].op = "generate"

----------------------------------------------------------------------------
\* Event i of the chapter being rendered is a text event the converter has
\* rewritten: quotes are on, it is outside every code block, and it has been
\* handed on.
Rewritten(i) ==
    /\ config.curly_quotes
    /\ i \in 1..Len(body)
    /\ Content[i].kind = "Text"
    /\ ~InCodeBlock(Content, i)

\* C14: converting the output of a conversion again changes nothing.
C14_Idempotent ==
    \A i \in 1..Len(body) :
        Rewritten(i) =>
            /\ body[i].text = convert_quotes_to_curly(Content[i].text)
            /\ convert_quotes_to_curly(body[i].text) = body[i].text

\* C14's case: a text with a closing quote after a letter was converted,
\* and the conversion changed it.
C14_Witness ==
    \E i \in 1..Len(body) :
        /\ Rewritten(i)
        /\ Len(Content[i].text) = 3
        /\ Content[i].text[3] = "'"
        /\ Content[i].text[2] = "a"
        /\ body[i].text # Content[i].text

\* C16: a quote that is the first character of a text event comes out as
\* the opening quote, whatever the text event before it ended with.
C16_FragmentStartOpens ==
    \A i \in 1..Len(body) :
        Rewritten(i) /\ Len(Content[i].text) > 0 =>
            /\ Content[i].text[1] = "'" => body[i].text[1] = "lsquo"
            /\ Content[i].text[1] = "\"" => body[i].text[1] = "ldquo"

\* C16's case: a text event starting with a quote follows a text event that
\* ends in a character that is no whitespace.
C16_Witness ==
    \E i \in 2..Len(body) :
        /\ Rewritten(i)
        /\ Rewritten(i - 1)
        /\ Content[i - 1].text = <<"a", "'">>
        /\ Content[i].text[1] = "\""
        /\ body[i].text[1] = "ldquo"

\* C18: a converted text has as many characters as the original, holds no
\* straight quote, and has the original's character wherever that is no
\* straight quote.
C18_LengthAndNoStraightQuotes ==
    \A i \in 1..Len(body) :
        Rewritten(i) =>
            /\ Len(body[i].text) = Len(Content[i].text)
            /\ \A k \in 1..Len(body[i].text) :
                  /\ body[i].text[k] \notin {"'", "\""}
                  /\ Content[i].text[k] \notin {"'", "\""} =>
                        body[i].text[k] = Content[i].text[k]

\* C18's case: a text of quotes, a letter and whitespace was converted.
C18_Witness ==
    \E i \in 1..Len(body) :
        /\ Rewritten(i)
        /\ Content[i].text = <<"'", "a", " ">>
        /\ body[i].text = <<"lsquo", "a", " ">>

----------------------------------------------------------------------------
\* The events of a chapter end inside a code block.
EndsInCodeBlock(events) == InCodeBlock(events, Len(events) + 1)

\* Event i of the chapter being rendered is its first text event, and no
\* code block starts before it.
FirstProseText(i) ==
    /\ i \in 1..Len(Content)
    /\ Content[i].kind = "Text"
    /\ \A j \in 1..(i - 1) :
          Content[j].kind # "Text" /\ Content[j] # StartTag("CodeBlock")

\* C15: every render pass starts with a converter of its own whose rewriting
\* is on, so with curly quotes the first prose text event of a chapter is
\* converted whatever the chapters rendered before it ended with.
C15_FreshConverterPerChapter ==
    /\ pc = "render" /\ Len(body) = 0 =>
          converter = [enabled |-> config.curly_quotes, convert_text |-> TRUE]
    /\ \A i \in 1..Len(body) :
          FirstProseText(i) /\ Len(hbs) > 0 /\ (\A k \in 1..Len(hbs) : hbs[k].ch # cur) =>
              body[i].text = IF config.curly_quotes
                             THEN ExpectedCurly(Content[i].text)
                             ELSE Content[i].text

\* C15's case: the chapter rendered before ended inside a code block, and
\* the first text of the next chapter came out with curly quotes.
C15_Witness ==
    /\ config.curly_quotes
    /\ Len(hbs) = 1
    /\ cur # hbs[1].ch
    /\ EndsInCodeBlock(book.items[hbs[1].ch].content)
    /\ Len(body) > 0
    /\ FirstProseText(1)
    /\ Content[1].text = <<"\"", "x", "\"">>
    /\ body[1].text = <<"ldquo", "x", "rdquo">>

----------------------------------------------------------------------------
\* The chapter nodes and the other entries of the book.
ChapterNodes == { id \in DOMAIN book.items : book.items[id].kind = "Chapter" }
SeparatorNodes == DOMAIN book.items \ ChapterNodes

\* How often id occurs in a sequence of ids.
Occurrences(ids, id) == Cardinality({ i \in 1..Len(ids) : ids[i] = id })

\* generate has ended with a failure that arose while the chapters were
\* walked.
ChapterPhaseFailure ==
    /\ result.status \in {"Err", "Panic"}
    /\ \/ result.error \in {"render: no path", "template", "content: no path",
                            "All chapters have a parent"}
       \/ /\ result.error = "archive"
          /\ calls[Len(calls)].phase = "generate_chapters"

\* C17: in a successful run every chapter node is rendered once and
\* registered once, so there are as many content registrations as chapter
\* nodes; an entry that is no chapter is never rendered or registered, and
\* every failure of the walk is the failure of a chapter.
C17_EachChapterOnce ==
    /\ \A id \in SeparatorNodes :
          Occurrences(RenderAttempts, id) = 0 /\ Occurrences(Registered, id) = 0
    /\ ChapterPhaseFailure => cur \in ChapterNodes
    /\ result.status = "Ok" =>
          /\ \A id \in ChapterNodes :
                Occurrences(RenderAttempts, id) = 1 /\ Occurrences(Registered, id) = 1
          /\ Len(ContentCalls) = Cardinality(ChapterNodes)

\* C17's case: a successful run over a chapter with a separator among its
\* children and a separator at the top level.
C17_Witness ==
    /\ result.status = "Ok"
    /\ \E c \in ChapterNodes :
          /\ \E k \in 1..Len(book.items[c].sub_items) :
                book.items[c].sub_items[k] \in SeparatorNodes
          /\ Occurrences(Registered, c) = 1
    /\ \E k \in 1..Len(book.sections) : book.sections[k] \in SeparatorNodes
    /\ Len(ContentCalls) = 1

====
